---------------------------- MODULE Spec2Model ----------------------------
(***************************************************************************)
(* OpenSafeGuard dataloader: the loader registry (DataLoaderRegistry),     *)
(* the shared base loader (BaseDataLoader.__init__ / generate_id / load)   *)
(* and the per-dataset mapping strategies, as a state machine.             *)
(*                                                                         *)
(* Python values are modelled as strings: a str is itself, None is PyNone, *)
(* True/False are PyTrue/PyFalse.  A dict is a function whose DOMAIN is    *)
(* its key set, a list is a sequence.                                      *)
(***************************************************************************)
EXTENDS Integers, Sequences, FiniteSets, TLC

VARIABLES
    registry,         \* DataLoaderRegistry._registry : name -> class (NoClass: unbound)
    REGISTER_NAME,    \* class attribute REGISTER_NAME of every loader class
    DEFAULT_HF_PATH,  \* class attribute DEFAULT_HF_PATH of every loader class
    loaders,          \* the loader instances that exist, by reference
    calls,            \* the load() activation of every loader instance
    fetchCount,       \* how many times the fetch collaborator (load_dataset) was called
    last,             \* the outcome of the last registry / constructor call
    files,            \* the two local HarmBench files (CSV rows, JSON groups)
    row,              \* input of a single mapping() call
    item              \* DataItem returned by that mapping() call

regVars == <<registry, REGISTER_NAME, DEFAULT_HF_PATH>>
loadVars == <<calls, fetchCount>>
mapVars == <<row, item>>
vars == <<registry, REGISTER_NAME, DEFAULT_HF_PATH, loaders, calls, fetchCount,
          last, files, row, item>>

----------------------------------------------------------------------------
(* Python values *)

PyNone == "<None>"
PyTrue == "<True>"
PyFalse == "<False>"

\* bool(v) of a scalar value: None, False and the empty string are falsy
Truthy(v) == v \notin {PyNone, PyFalse, ""}

PyBool(b) == IF b THEN PyTrue ELSE PyFalse

EmptyDict == [k \in {} |-> PyNone]

\* d.get(k) and d.get(k, default)
DictGet(d, k) == IF k \in DOMAIN d THEN d[k] ELSE PyNone

DictGetDefault(d, k, default) == IF k \in DOMAIN d THEN d[k] ELSE default

\* {**a, **b}: the keys of both, b wins on collision
DictMerge(a, b) ==
    [k \in (DOMAIN a) \cup (DOMAIN b) |-> IF k \in DOMAIN b THEN b[k] ELSE a[k]]

----------------------------------------------------------------------------
(* Registry: static table, classes, register / get_loader *)

CONST_HF_DATASET_IDS ==
    ("toxicchat" :> "lmsys/toxic-chat") @@
    ("openai-moderation" :> "mmathys/openai-moderation-api-evaluation") @@
    ("aegis-v1" :> "nvidia/Aegis-AI-Content-Safety-Dataset-1.0") @@
    ("aegis-v2" :> "nvidia/Aegis-AI-Content-Safety-Dataset-2.0") @@
    ("simple-safety-tests" :> "Bertievidgen/SimpleSafetyTests") @@
    ("harmbench" :> "walledai/HarmBench") @@
    ("wildguard" :> "allenai/wildguardmix") @@
    ("s-eval" :> "IS2Lab/S-Eval") @@
    ("saferlhf" :> "PKU-Alignment/PKU-SafeRLHF") @@
    ("beavertails" :> "PKU-Alignment/BeaverTails") @@
    ("xstest" :> "walledai/XSTest") @@
    ("xstest-response" :> "allenai/xstest-response") @@
    ("bingoguard" :> "fanyin3639/final_safety_bingo_w_severity_v3_decontamination") @@
    ("or-bench" :> "bench-llms/or-bench") @@
    ("sorrybench" :> "sorry-bench/sorry-bench-202503") @@
    ("sorrybench-human-judgement" :> "sorry-bench/sorry-bench-human-judgment-202503") @@
    ("think" :> "Qwen/Qwen3GuardTest") @@
    ("jailbreakbench" :> "JailbreakBench/JBB-Behaviors") @@
    ("wildjailbreak" :> "allenai/wildjailbreak") @@
    ("strongreject" :> "walledai/StrongREJECT")

\* DataLoaderRegistry.HF_DATASET_IDS
HF_DATASET_IDS == CONST_HF_DATASET_IDS

\* The five concrete loader classes of the package, and UserLoader: any other
\* subclass of BaseDataLoader a caller defines (it carries the base class
\* attributes until it is registered).
SourceClasses ==
    {"AegisV1Loader", "AegisV2Loader", "BeaverTailsLoader", "BingoGuardLoader",
     "HarmBenchLoader"}

Classes == SourceClasses \cup {"UserLoader"}

NoClass == "<unbound>"

\* Registration names: the five the package uses and one with no table entry.
Names ==
    {"aegis-v1", "aegis-v2", "beavertails", "bingoguard", "harmbench", "custom"}

\* The @DataLoaderRegistry.register(name) decorations of the source.
Decorations ==
    ("AegisV1Loader" :> "aegis-v1") @@
    ("AegisV2Loader" :> "aegis-v2") @@
    ("BeaverTailsLoader" :> "beavertails") @@
    ("BingoGuardLoader" :> "bingoguard") @@
    ("HarmBenchLoader" :> "harmbench")

\* BaseDataLoader.REGISTER_NAME / DEFAULT_HF_PATH before any registration
BaseRegisterName == "default"

BaseDefaultPath == PyNone

\* Classes whose decorator ran against dataloader.base.DataLoaderRegistry, the
\* registry the package exports.  harmbench.py imports DataLoaderRegistry
\* "from base", a different module object than "dataloader.base", so its
\* decorator fills that other module's table and only sets the class attributes.
PackageRegistered ==
    {"AegisV1Loader", "AegisV2Loader", "BeaverTailsLoader", "BingoGuardLoader"}

\* A wrapper that keeps the binding a name already has (first registration wins).
RegistryKeepFirst(reg, name, cls) ==
    IF reg[name] = NoClass THEN [reg EXCEPT ![name] = cls] ELSE reg

\* register: cls._registry[name] = wrapped_class
RegistryBind(reg, name, cls) == [reg EXCEPT ![name] = cls]

\* register: wrapped_class.REGISTER_NAME = name
RegisterNameAfter(rn, name, cls) == [rn EXCEPT ![cls] = name]

\* register: inject the default path when the table has the name
DefaultPathAfter(dp, name, cls) ==
    IF name \in DOMAIN HF_DATASET_IDS
    THEN [dp EXCEPT ![cls] = HF_DATASET_IDS[name]]
    ELSE dp

NoError == "<no error>"
ErrUnknownLoader == "ValueError: loader not registered"
ErrUnboundPath == "ValueError: loader has no path"

NoLoader == [cls |-> NoClass, path |-> PyNone, init_kwargs |-> EmptyDict]

LoaderIds == {1, 2}

\* The load() activation of a loader: where it stands (pc: idle, loop, returned,
\* raised), the caller's keyword arguments (args), the path and keyword
\* arguments given to load_dataset (fetch_path is PyNone when nothing was
\* fetched), the rows obtained, the number of rows consumed (i), the local
\* list results, the list handed back to the caller and the error raised.
IdleCall ==
    [pc |-> "idle", args |-> EmptyDict, fetch_path |-> PyNone,
     final_kwargs |-> EmptyDict, current_split |-> PyNone,
     dataset |-> <<>>, i |-> 0, results |-> <<>>, returned |-> <<>>,
     error |-> NoError]

NoFiles == [csv |-> <<>>, json |-> <<>>]

NoRow == EmptyDict

NoItem == [id |-> PyNone]

InitRegistry ==
    /\ registry =
         [n \in Names |->
            IF \E c \in PackageRegistered : Decorations[c] = n
            THEN CHOOSE c \in PackageRegistered : Decorations[c] = n
            ELSE NoClass]
    /\ REGISTER_NAME =
         [c \in Classes |->
            IF c \in SourceClasses THEN Decorations[c] ELSE BaseRegisterName]
    /\ DEFAULT_HF_PATH =
         [c \in Classes |->
            IF c \in SourceClasses /\ Decorations[c] \in DOMAIN HF_DATASET_IDS
            THEN HF_DATASET_IDS[Decorations[c]]
            ELSE BaseDefaultPath]

InitRest ==
    /\ loaders = [l \in LoaderIds |-> NoLoader]
    /\ calls = [l \in LoaderIds |-> IdleCall]
    /\ fetchCount = 0
    /\ last = [op |-> "init", ref |-> 0, name |-> PyNone, cls |-> NoClass,
               path |-> PyNone, error |-> NoError]
    /\ files = NoFiles
    /\ row = NoRow
    /\ item = NoItem

Init == InitRegistry /\ InitRest

\* DataLoaderRegistry.register(name)(wrapped_class)
Register(name, cls) ==
    /\ registry' = RegistryBind(registry, name, cls)
    /\ REGISTER_NAME' = RegisterNameAfter(REGISTER_NAME, name, cls)
    /\ DEFAULT_HF_PATH' = DefaultPathAfter(DEFAULT_HF_PATH, name, cls)
    /\ last' = [op |-> "register", ref |-> 0, name |-> name, cls |-> cls,
                path |-> PyNone, error |-> NoError]
    /\ UNCHANGED <<loaders, calls, fetchCount, files, row, item>>

\* self.DEFAULT_HF_PATH: the attribute of the instance's class, BaseDataLoader's
\* own value for a class the registry never touched
ClassDefaultPath(dp, cls) == IF cls \in DOMAIN dp THEN dp[cls] ELSE BaseDefaultPath

\* A resolution that ignores the class default.
EffectivePathNoDefault(cls, path, dp) == path

\* BaseDataLoader.__init__: self.path = path or self.DEFAULT_HF_PATH
EffectivePath(cls, path, dp) ==
    IF Truthy(path) THEN path ELSE ClassDefaultPath(dp, cls)

\* BaseDataLoader.__init__: self.init_kwargs = {"split": split, **kwargs}
BaseInitKwargs(split, kwargs) == DictMerge([k \in {"split"} |-> split], kwargs)

HarmBenchPathKeys == {"query_task_path", "response_task_path"}

\* HarmBenchLoader.__init__(query_task_path=None, response_task_path=None, **kwargs):
\* the two file paths are bound to its own parameters, the rest goes to the base
\* constructor, then init_kwargs.update({...both paths...}).
InitKwargsOf(cls, split, kwargs) ==
    IF cls = "HarmBenchLoader"
    THEN DictMerge(
            BaseInitKwargs(split, [k \in (DOMAIN kwargs) \ HarmBenchPathKeys |-> kwargs[k]]),
            [k \in HarmBenchPathKeys |-> DictGet(kwargs, k)])
    ELSE BaseInitKwargs(split, kwargs)

\* BaseDataLoader.__init__: if not self.path: raise ValueError
ConstructError(cls, path, dp) ==
    IF Truthy(EffectivePath(cls, path, dp)) THEN NoError ELSE ErrUnboundPath

\* cls(path=path, split=split, **kwargs), the result bound to reference l: the
\* reference is rebound only when __init__ returned, and never during a load()
\* of the instance it holds.
Construct(l, op, name, cls, path, split, kwargs) ==
    LET err == ConstructError(cls, path, DEFAULT_HF_PATH) IN
    /\ calls[l].pc # "loop"
    /\ last' = [op |-> op, ref |-> l, name |-> name, cls |-> cls, path |-> path,
                error |-> err]
    /\ loaders' =
         IF err = NoError
         THEN [loaders EXCEPT ![l] =
                 [cls |-> cls,
                  path |-> EffectivePath(cls, path, DEFAULT_HF_PATH),
                  init_kwargs |-> InitKwargsOf(cls, split, kwargs)]]
         ELSE loaders
    /\ calls' = IF err = NoError THEN [calls EXCEPT ![l] = IdleCall] ELSE calls
    /\ UNCHANGED <<registry, REGISTER_NAME, DEFAULT_HF_PATH, fetchCount, files, row, item>>

\* The lookup never fails.
LookupErrorNever(reg, name) == NoError

\* get_loader: if name not in cls._registry: raise ValueError
LookupError(reg, name) == IF reg[name] = NoClass THEN ErrUnknownLoader ELSE NoError

\* DataLoaderRegistry.get_loader(name, path, split, **kwargs)
GetLoader(l, name, path, split, kwargs) ==
    IF LookupError(registry, name) # NoError
    THEN /\ calls[l].pc # "loop"
         /\ last' = [op |-> "get_loader", ref |-> l, name |-> name, cls |-> NoClass,
                     path |-> path, error |-> LookupError(registry, name)]
         /\ UNCHANGED <<registry, REGISTER_NAME, DEFAULT_HF_PATH, loaders, calls,
                        fetchCount, files, row, item>>
    ELSE Construct(l, "get_loader", name, registry[name], path, split, kwargs)

----------------------------------------------------------------------------
(* DataItem and id generation *)

\* id: str = field(default_factory=lambda: str(uuid.uuid4())): a random value,
\* which no mapping strategy reads and which load() overwrites
DefaultId == "<uuid4>"

\* Values uuid.uuid4() may draw for two DataItems
Uuids == {DefaultId, "<another uuid4>"}

\* DataItem(query=..., response=..., ...): the fields not passed keep their defaults
DataItem(query, response, q_harmful, r_harmful, r_refusal, category, extra) ==
    [id |-> DefaultId, query |-> query, response |-> response,
     query_harmful_label |-> q_harmful, response_harmful_label |-> r_harmful,
     response_refusal_label |-> r_refusal, category |-> category, extra |-> extra]

DigitChars == <<"0", "1", "2", "3", "4", "5", "6", "7", "8", "9">>

\* str(n) of a non-negative integer
RECURSIVE DecimalStr(_)
DecimalStr(n) ==
    IF n < 10 THEN DigitChars[n + 1]
    ELSE DecimalStr(n \div 10) \o DigitChars[(n % 10) + 1]

\* left-pad with "0" up to the width; a longer string is kept whole
RECURSIVE ZeroPad(_, _)
ZeroPad(str, width) == IF Len(str) >= width THEN str ELSE ZeroPad("0" \o str, width)

IdWidth == 6

\* BaseDataLoader.generate_id: f"{self.REGISTER_NAME}-{idx:06d}"
generate_id(rn, cls, idx) == rn[cls] \o "-" \o ZeroPad(DecimalStr(idx), IdWidth)

----------------------------------------------------------------------------
(* Aegis v1: majority vote over five annotator labels *)

NumAnnotators == 5

LabelKey(i) == "labels_" \o DigitChars[i + 1]

\* A label value that is a list: truthy, not "None", and not hashable.
PyUnhashable == "<list>"

\* [row.get(f"labels_{i}") for i in range(5)]
RowLabels(r) == [j \in 1..NumAnnotators |-> DictGet(r, LabelKey(j - 1))]

\* _get_majority_label: row.get(f"labels_{i}") and row.get(f"labels_{i}") != "None"
IsValidLabel(v) == Truthy(v) /\ v # "None"

\* the list comprehension keeps the labels that pass the test, in annotator order
ValidLabels(r) == SelectSeq(RowLabels(r), IsValidLabel)

\* Counter(seq): an insertion-ordered dict, as the sequence of <<key, count>>
\* in the order in which the keys were first met
RECURSIVE CounterOf(_)
CounterOf(seq) ==
    IF seq = <<>> THEN <<>>
    ELSE LET before == CounterOf(SubSeq(seq, 1, Len(seq) - 1))
             x == seq[Len(seq)]
         IN IF \E j \in 1..Len(before) : before[j][1] = x
            THEN [j \in 1..Len(before) |->
                    IF before[j][1] = x THEN <<x, before[j][2] + 1>> ELSE before[j]]
            ELSE Append(before, <<x, 1>>)

\* A scan that keeps the later of two entries with equal counts.
RECURSIVE MaxByCountLast(_)
MaxByCountLast(entries) ==
    IF Len(entries) = 1 THEN entries[1]
    ELSE LET best == MaxByCountLast(SubSeq(entries, 1, Len(entries) - 1))
             e == entries[Len(entries)]
         IN IF e[2] >= best[2] THEN e ELSE best

\* counts.most_common(1)[0] = heapq.nlargest(1, items, key=count) = max(items,
\* key=count): the first entry, in iteration order, whose count is maximal
RECURSIVE MaxByCount(_)
MaxByCount(entries) ==
    IF Len(entries) = 1 THEN entries[1]
    ELSE LET best == MaxByCount(SubSeq(entries, 1, Len(entries) - 1))
             e == entries[Len(entries)]
         IN IF e[2] > best[2] THEN e ELSE best

\* AegisV1Loader._get_majority_label
get_majority_label(r) ==
    IF ValidLabels(r) = <<>> THEN "None"
    ELSE MaxByCount(CounterOf(ValidLabels(r)))[1]

\* mapping: row.get(f"labels_{i}") is not None
IsNotNone(v) == v # PyNone

\* A flag computed from the majority label alone.
AegisIsHarmfulByMajority(r) == get_majority_label(r) # "Safe"

\* mapping: is_harmful = all(label != "Safe" for label in labels)
AegisIsHarmful(r) ==
    LET labels == SelectSeq(RowLabels(r), IsNotNone)
    IN \A j \in 1..Len(labels) : labels[j] # "Safe"

\* Counter(valid_labels) hashes every valid label: a list-valued label raises
AegisV1MappingError(r) ==
    IF \E j \in 1..Len(ValidLabels(r)) : ValidLabels(r)[j] = PyUnhashable
    THEN "TypeError: unhashable type"
    ELSE NoError

\* AegisV1Loader.mapping
AegisV1Mapping(r) ==
    DataItem(DictGet(r, "text"), PyNone, PyBool(AegisIsHarmful(r)), PyNone, PyNone,
             get_majority_label(r),
             [text_type |-> DictGet(r, "text_type"), labels |-> RowLabels(r)])

----------------------------------------------------------------------------
(* Aegis v2: labels compared with "unsafe" *)

\* AegisV2Loader.mapping
AegisV2Mapping(r) ==
    DataItem(DictGet(r, "prompt"), DictGet(r, "response"),
             PyBool(DictGet(r, "prompt_label") = "unsafe"),
             PyBool(DictGet(r, "response_label") = "unsafe"),
             PyBool(DictGet(r, "response_label_source") = "refusal_data_augmentation"),
             DictGetDefault(r, "violated_categories", ""),
             [reconstruction_id |-> DictGet(r, "reconstruction_id_if_redacted"),
              prompt_label_source |-> DictGet(r, "prompt_label_source"),
              response_label_source |-> DictGet(r, "response_label_source")])

----------------------------------------------------------------------------
(* BeaverTails: one is_safe flag and a dictionary of category flags *)

\* A dict value is the sequence of its <<key, value>> items in iteration order;
\* a cell that holds a dict or None is tagged so that the two can be told apart
PyDict(items) == [t |-> "dict", items |-> items]

PyNoneCell == [t |-> "none"]

\* row.get("category", {})
BeaverTailsCategoryDict(r) ==
    IF "category" \in DOMAIN r THEN r["category"] ELSE PyDict(<<>>)

\* [cat for cat, triggered in category_dict.items() if triggered]
IsTriggered(kv) == Truthy(kv[2])

Violated(d) == SelectSeq(d.items, IsTriggered)

\* ";".join(names)
RECURSIVE JoinNames(_)
JoinNames(kvs) ==
    IF kvs = <<>> THEN ""
    ELSE IF Len(kvs) = 1 THEN kvs[1][1]
    ELSE JoinNames(SubSeq(kvs, 1, Len(kvs) - 1)) \o ";" \o kvs[Len(kvs)][1]

\* BeaverTailsLoader._extract_categories: "" for None or an empty dict
extract_categories(d) ==
    IF d.t = "none" \/ d.items = <<>> THEN "" ELSE JoinNames(Violated(d))

\* A mapping that hands the joined string on as it is.
CategoryOrEmpty(violated_str) == violated_str

\* category=violated_str if len(violated_str) else None
CategoryOrNone(violated_str) == IF Len(violated_str) > 0 THEN violated_str ELSE PyNone

\* overall_harmful = not row.get("is_safe", True)
OverallHarmful(r) == ~Truthy(DictGetDefault(r, "is_safe", PyTrue))

\* BeaverTailsLoader.mapping
BeaverTailsMapping(r) ==
    DataItem(DictGet(r, "prompt"), DictGet(r, "response"),
             PyBool(OverallHarmful(r)), PyBool(OverallHarmful(r)), PyNone,
             CategoryOrNone(extract_categories(BeaverTailsCategoryDict(r))),
             [raw_category_map |-> BeaverTailsCategoryDict(r)])

----------------------------------------------------------------------------
(* BingoGuard: a compound prompt_label and a "#level:" severity *)

\* A str value is the sequence of its characters, an int value is its number;
\* both are tagged so that they can be told apart from None (PyNoneCell)
PyStr(chars) == [t |-> "str", chars |-> chars]

PyInt(n) == [t |-> "int", v |-> n]

\* bool(v) of a str or None cell
TruthyCell(v) == v.t = "str" /\ v.chars # <<>>

\* row.get(k, default)
CellGet(r, k, default) == IF k \in DOMAIN r THEN r[k] ELSE default

\* str.isspace() characters, and the characters \s matches
Whitespace == {" ", "\t"}

\* the characters \d matches
IsDigit(ch) == \E d \in 1..10 : DigitChars[d] = ch

DigitValue(ch) == (CHOOSE d \in 1..10 : DigitChars[d] = ch) - 1

UpperChars == <<"A", "B", "C", "D", "E", "F", "G", "H", "I", "J", "K", "L", "M",
                "N", "O", "P", "Q", "R", "S", "T", "U", "V", "W", "X", "Y", "Z">>

LowerChars == <<"a", "b", "c", "d", "e", "f", "g", "h", "i", "j", "k", "l", "m",
                "n", "o", "p", "q", "r", "s", "t", "u", "v", "w", "x", "y", "z">>

\* str.lower()
LowerChar(ch) ==
    IF \E k \in 1..26 : UpperChars[k] = ch
    THEN LowerChars[CHOOSE k \in 1..26 : UpperChars[k] = ch]
    ELSE ch

\* A lower() that changes no character.
StrLowerIdentity(cs) == cs

StrLower(cs) == [k \in 1..Len(cs) |-> LowerChar(cs[k])]

\* str.strip()
RECURSIVE LStrip(_)
LStrip(cs) ==
    IF cs # <<>> /\ Head(cs) \in Whitespace THEN LStrip(Tail(cs)) ELSE cs

RECURSIVE RStrip(_)
RStrip(cs) ==
    IF cs # <<>> /\ cs[Len(cs)] \in Whitespace
    THEN RStrip(SubSeq(cs, 1, Len(cs) - 1)) ELSE cs

StrStrip(cs) == RStrip(LStrip(cs))

\* cs[i:].startswith(sub)
StartsAt(cs, i, sub) ==
    i + Len(sub) - 1 <= Len(cs) /\ SubSeq(cs, i, i + Len(sub) - 1) = sub

\* sub in cs
StrContains(cs, sub) == \E i \in 1..Len(cs) : StartsAt(cs, i, sub)

\* A split that takes the part after the first separator.
AfterFirst(cs, sep) ==
    LET i == CHOOSE k \in 1..Len(cs) : cs[k] = sep /\ \A m \in 1..(k - 1) : cs[m] # sep
    IN SubSeq(cs, i + 1, Len(cs))

\* cs.split(sep)[-1] for a one-character sep that occurs in cs
AfterLast(cs, sep) ==
    LET i == CHOOSE k \in 1..Len(cs) : cs[k] = sep /\ \A m \in (k + 1)..Len(cs) : cs[m] # sep
    IN SubSeq(cs, i + 1, Len(cs))

LevelMarker == <<"#", "l", "e", "v", "e", "l", ":">>

UnsafeMarker == <<"u", "n", "s", "a", "f", "e">>

\* The first position at or after i that holds no whitespace (Len + 1 if none)
RECURSIVE SkipSpace(_, _)
SkipSpace(cs, i) ==
    IF i <= Len(cs) /\ cs[i] \in Whitespace THEN SkipSpace(cs, i + 1) ELSE i

\* The last position of the run of digits that starts at i
RECURSIVE DigitsEnd(_, _)
DigitsEnd(cs, i) ==
    IF i + 1 <= Len(cs) /\ IsDigit(cs[i + 1]) THEN DigitsEnd(cs, i + 1) ELSE i

\* int(digits)
RECURSIVE IntOf(_)
IntOf(ds) ==
    IF ds = <<>> THEN 0
    ELSE 10 * IntOf(SubSeq(ds, 1, Len(ds) - 1)) + DigitValue(ds[Len(ds)])

\* r"#level:\s*(\d+)" matches at position i
LevelMatchesAt(cs, i) ==
    /\ StartsAt(cs, i, LevelMarker)
    /\ SkipSpace(cs, i + Len(LevelMarker)) <= Len(cs)
    /\ IsDigit(cs[SkipSpace(cs, i + Len(LevelMarker))])

\* match.group(1) of re.search: the digits of the leftmost match
LevelDigits(cs) ==
    LET i == CHOOSE k \in 1..Len(cs) :
                 LevelMatchesAt(cs, k) /\ \A m \in 1..(k - 1) : ~LevelMatchesAt(cs, m)
        d == SkipSpace(cs, i + Len(LevelMarker))
    IN SubSeq(cs, d, DigitsEnd(cs, d))

\* A severity of 0 where nothing was found.
ZeroSeverity == PyInt(0)

\* return None
NoSeverity == PyNoneCell

\* BingoGuardLoader._extract_severity
extract_severity(label) ==
    IF TruthyCell(label) /\ StrContains(label.chars, LevelMarker)
    THEN IF \E i \in 1..Len(label.chars) : LevelMatchesAt(label.chars, i)
         THEN PyInt(IntOf(LevelDigits(label.chars)))
         ELSE NoSeverity
    ELSE NoSeverity

\* BingoGuardLoader._parse_safety: <<is_harmful, category>>
parse_safety(prompt_label) ==
    IF ~TruthyCell(prompt_label) THEN <<FALSE, PyStr(<<"s", "a", "f", "e">>)>>
    ELSE LET is_harmful == StrContains(prompt_label.chars, UnsafeMarker)
         IN <<is_harmful,
              IF StrContains(prompt_label.chars, <<":">>)
              THEN PyStr(StrStrip(AfterLast(prompt_label.chars, ":")))
              ELSE IF is_harmful THEN PyStr(UnsafeMarker)
              ELSE PyStr(<<"s", "a", "f", "e">>)>>

\* response_text is None or str(response_text).strip() == ""
\*   or str(response_text).lower() == "none"
ResponseIsEmpty(response_text) ==
    \/ response_text.t = "none"
    \/ StrStrip(response_text.chars) = <<>>
    \/ StrLower(response_text.chars) = <<"n", "o", "n", "e">>

\* BingoGuardLoader.mapping
BingoGuardMapping(r) ==
    LET p_label_raw == CellGet(r, "prompt_label", PyStr(<<>>))
        r_label_raw == CellGet(r, "label", PyStr(<<>>))
        response_text == CellGet(r, "response", PyNoneCell)
        safety == parse_safety(p_label_raw)
    IN DataItem(CellGet(r, "prompt", PyNoneCell), response_text,
                PyBool(safety[1]),
                IF ResponseIsEmpty(response_text) THEN PyNone ELSE PyBool(safety[1]),
                PyNone, safety[2],
                [severity |-> extract_severity(r_label_raw),
                 prompt_label |-> p_label_raw, label_field |-> r_label_raw])

----------------------------------------------------------------------------
(* BaseDataLoader.load: merge the arguments, fetch, map row by row *)

DictWithout(d, keys) == [k \in (DOMAIN d) \ keys |-> d[k]]

\* def load(self, split: str = "train", **load_kwargs), called by the loaders'
\* own load(self, **load_kwargs) as super().load(**load_kwargs): the parameter
\* split is the caller's "split" keyword, or its default "train"
BaseLoadSplit(kw) == DictGetDefault(kw, "split", "train")

\* final_kwargs = {**self.init_kwargs, "split": split, **load_kwargs}
FinalKwargs(init_kwargs, kw) ==
    DictMerge(DictMerge(init_kwargs, [k \in {"split"} |-> BaseLoadSplit(kw)]),
              DictWithout(kw, {"split"}))

\* current_split = final_kwargs.get("split", "train")
CurrentSplit(final_kwargs) == DictGetDefault(final_kwargs, "split", "train")

\* What load_dataset gives back: an error it raises, or the rows of the split
\* (a DatasetDict is indexed by current_split, which yields the same rows)
FetchError == "FetchError: source or split not found"

FetchRaises == [error |-> FetchError, rows |-> <<>>]

FetchReturns(rows) == [error |-> NoError, rows |-> rows]

\* HarmBenchLoader.mapping is "pass": it returns None for every row
MappingReturnsNone(cls) == cls = "HarmBenchLoader"

ErrNoneItem == "AttributeError: 'NoneType' object has no attribute 'id'"

\* self.mapping(row) raising
MappingError(cls, r) ==
    IF cls = "AegisV1Loader" THEN AegisV1MappingError(r) ELSE NoError

\* self.mapping(row), for the classes whose mapping returns a DataItem
MappingOf(cls, r) ==
    CASE cls = "AegisV2Loader" -> AegisV2Mapping(r)
      [] cls = "BeaverTailsLoader" -> BeaverTailsMapping(r)
      [] cls = "BingoGuardLoader" -> BingoGuardMapping(r)
      [] OTHER -> AegisV1Mapping(r)

\* What stops the loop body on row r: mapping raised, or item.id = ... was
\* attempted on None
RowError(cls, r) ==
    IF MappingError(cls, r) # NoError THEN MappingError(cls, r)
    ELSE IF MappingReturnsNone(cls) THEN ErrNoneItem
    ELSE NoError

\* An enumeration that starts at 0.
EnumerateIndexFromZero(consumed) == consumed

\* A counter that every loader advances.
EnumerateIndexShared(consumed) == calls[1].i + calls[2].i + 1

\* enumerate(..., 1): the index of a row is the number of rows before it, plus 1
EnumerateIndex(consumed) == consumed + 1

\* A load() that stores the arguments of the call in the instance.
InstanceRememberingCall(loader, kw) ==
    [loader EXCEPT !.init_kwargs = DictMerge(loader.init_kwargs, kw)]

\* The instance after load(): final_kwargs is a new dict built from
\* self.init_kwargs, q_path / r_path are locals read with .get(); neither load()
\* assigns an attribute of self
InstanceAfterLoad(loader, kw) == loader

\* The call after load_dataset: raised, or ready to iterate
BaseLoadStart(loader, kw, outcome) ==
    [pc |-> IF outcome.error # NoError THEN "raised" ELSE "loop",
     args |-> kw,
     fetch_path |-> loader.path,
     final_kwargs |-> FinalKwargs(loader.init_kwargs, kw),
     current_split |-> CurrentSplit(FinalKwargs(loader.init_kwargs, kw)),
     dataset |-> outcome.rows, i |-> 0, results |-> <<>>, returned |-> <<>>,
     error |-> outcome.error]

\* A handler that gives back what was mapped so far.
AfterRowErrorPartial(c, err) ==
    [c EXCEPT !.pc = "returned", !.returned = c.results]

\* An exception leaves load(): nothing is returned
AfterRowError(c, err) == [c EXCEPT !.pc = "raised", !.error = err]

\* A loop body that leaves the item's id as DataItem() drew it.
AfterRowKeepId(c, mapped, id) ==
    [c EXCEPT !.i = c.i + 1, !.results = Append(c.results, mapped)]

\* item.id = self.generate_id(i); results.append(item)
AfterRow(c, mapped, id) ==
    [c EXCEPT !.i = c.i + 1, !.results = Append(c.results, [mapped EXCEPT !.id = id])]

MaxFetches == 3

\* One iteration of "for i, row in enumerate(dataset, 1)"
LoadStep(l) ==
    LET c == calls[l]
        cls == loaders[l].cls
        r == c.dataset[c.i + 1]
    IN /\ c.pc = "loop"
       /\ c.i < Len(c.dataset)
       /\ \E uuid \in Uuids :
             calls' = [calls EXCEPT ![l] =
                         IF RowError(cls, r) # NoError
                         THEN AfterRowError(c, RowError(cls, r))
                         ELSE AfterRow(c, [MappingOf(cls, r) EXCEPT !.id = uuid],
                                       generate_id(REGISTER_NAME, cls, EnumerateIndex(c.i)))]
       /\ UNCHANGED <<registry, REGISTER_NAME, DEFAULT_HF_PATH, loaders, fetchCount,
                      last, files, row, item>>

\* return results
LoadReturn(l) ==
    LET c == calls[l]
    IN /\ c.pc = "loop"
       /\ c.i = Len(c.dataset)
       /\ calls' = [calls EXCEPT ![l] = [c EXCEPT !.pc = "returned", !.returned = c.results]]
       /\ UNCHANGED <<registry, REGISTER_NAME, DEFAULT_HF_PATH, loaders, fetchCount,
                      last, files, row, item>>

\* load(**kw) of a loader whose load() is "return super().load(**load_kwargs)":
\* the arguments are merged and load_dataset is called
BaseLoad(l, kw, outcomes) ==
    /\ loaders[l] # NoLoader
    /\ calls[l].pc # "loop"
    /\ fetchCount < MaxFetches
    /\ \E outcome \in outcomes :
          calls' = [calls EXCEPT ![l] = BaseLoadStart(loaders[l], kw, outcome)]
    /\ fetchCount' = fetchCount + 1
    /\ loaders' = [loaders EXCEPT ![l] = InstanceAfterLoad(loaders[l], kw)]
    /\ UNCHANGED <<registry, REGISTER_NAME, DEFAULT_HF_PATH, last, files, row, item>>

----------------------------------------------------------------------------
(* HarmBenchLoader: two local files merged under one id counter *)

\* df[df["FunctionalCategory"].isin(["standard", "copyright"])]
AllowedFunctionalCategories == {"standard", "copyright"}

IsAllowedRow(r) == DictGet(r, "FunctionalCategory") \in AllowedFunctionalCategories

\* the rows of the CSV file that pass the filter, in file order
KeptCsvRows(csv) == SelectSeq(csv, IsAllowedRow)

\* A start index that ignores the records already collected.
JsonStartIndexRestart(combined) == 1

\* start_idx=current_count + 1 with current_count = len(combined_data)
JsonStartIndex(combined) == Len(combined) + 1

\* enumerate(rows, start_idx): the index of the k-th row (k from 1)
EnumerateFrom(start_idx, k) == start_idx + k - 1

\* HarmBenchLoader._parse_query_csv
parse_query_csv(rn, csv, start_idx) ==
    LET kept == KeptCsvRows(csv)
    IN [k \in 1..Len(kept) |->
          [DataItem(DictGet(kept[k], "Behavior"), PyNone, PyTrue, PyNone, PyNone,
                    DictGetDefault(kept[k], "SemanticCategory", ""),
                    [behavior_id |-> DictGet(kept[k], "BehaviorID"),
                     functional_category |-> DictGet(kept[k], "FunctionalCategory"),
                     tags |-> DictGet(kept[k], "Tags"),
                     context_string |-> DictGet(kept[k], "ContextString"),
                     source_file |-> "behavior_csv"])
           EXCEPT !.id = generate_id(rn, "HarmBenchLoader", EnumerateFrom(start_idx, k))]]

\* for behavior_id, cases in raw_data.items(): for case in cases:
\*     case["_behavior_id_key"] = behavior_id; flat_cases.append(case)
\* The JSON object is the sequence of its <<key, cases>> members in file order.
RECURSIVE FlattenCases(_)
FlattenCases(groups) ==
    IF groups = <<>> THEN <<>>
    ELSE [j \in 1..Len(groups[1][2]) |->
            DictMerge(groups[1][2][j], [k \in {"_behavior_id_key"} |-> groups[1][1]])]
         \o FlattenCases(Tail(groups))

\* human_votes = [case.get("human_0", 0), case.get("human_1", 0), case.get("human_2", 0)]
HumanVotes(case) ==
    <<DictGetDefault(case, "human_0", 0), DictGetDefault(case, "human_1", 0),
      DictGetDefault(case, "human_2", 0)>>

\* A rule that is content with one vote.
IsHarmfulResponseAny(case) ==
    HumanVotes(case)[1] + HumanVotes(case)[2] + HumanVotes(case)[3] > 0

\* is_harmful_r = sum(human_votes) > 1
IsHarmfulResponse(case) ==
    HumanVotes(case)[1] + HumanVotes(case)[2] + HumanVotes(case)[3] > 1

\* HarmBenchLoader._parse_response_json
parse_response_json(rn, groups, start_idx) ==
    LET flat == FlattenCases(groups)
    IN [k \in 1..Len(flat) |->
          [DataItem(DictGet(flat[k], "test_case"), DictGet(flat[k], "generation"),
                    PyTrue, PyBool(IsHarmfulResponse(flat[k])), PyNone, "harmful",
                    [behavior_id |-> DictGet(flat[k], "_behavior_id_key"),
                     method |-> DictGet(flat[k], "method"),
                     model |-> DictGet(flat[k], "model"),
                     prompt_type |-> IF DictGet(flat[k], "experiment") # "default"
                                     THEN "adversarial" ELSE "vanilla",
                     human_votes |-> HumanVotes(flat[k]),
                     source_file |-> "response_json"])
           EXCEPT !.id = generate_id(rn, "HarmBenchLoader", EnumerateFrom(start_idx, k))]]

\* q_path = query_task_path or self.init_kwargs.get("query_task_path")
HarmBenchPath(loader, kw, key) ==
    IF Truthy(DictGet(kw, key)) THEN DictGet(kw, key) ELSE DictGet(loader.init_kwargs, key)

\* combined_data after the two "if q_path:" / "if r_path:" blocks
HarmBenchCombined(rn, loader, kw, fs) ==
    LET fromCsv == IF Truthy(HarmBenchPath(loader, kw, "query_task_path"))
                   THEN parse_query_csv(rn, fs.csv, 1) ELSE <<>>
    IN fromCsv \o
       (IF Truthy(HarmBenchPath(loader, kw, "response_task_path"))
        THEN parse_response_json(rn, fs.json, JsonStartIndex(fromCsv)) ELSE <<>>)

\* if not combined_data: return super().load(**load_kwargs)
HarmBenchFallsBack(combined) == Len(combined) = 0

\* HarmBenchLoader.load(query_task_path=None, response_task_path=None, **load_kwargs)
HarmBenchLoad(l, kw, outcomes) ==
    LET combined == HarmBenchCombined(REGISTER_NAME, loaders[l], kw, files)
    IN /\ loaders[l] # NoLoader
       /\ loaders[l].cls = "HarmBenchLoader"
       /\ calls[l].pc # "loop"
       /\ IF HarmBenchFallsBack(combined)
          THEN /\ fetchCount < MaxFetches
               /\ \E outcome \in outcomes :
                     calls' = [calls EXCEPT ![l] =
                                 [BaseLoadStart(loaders[l], DictWithout(kw, HarmBenchPathKeys),
                                                outcome)
                                  EXCEPT !.args = kw]]
               /\ fetchCount' = fetchCount + 1
          ELSE /\ calls' = [calls EXCEPT ![l] =
                              [IdleCall EXCEPT !.pc = "returned", !.args = kw,
                                               !.returned = combined]]
               /\ UNCHANGED fetchCount
       /\ loaders' = [loaders EXCEPT ![l] = InstanceAfterLoad(loaders[l], kw)]
       /\ UNCHANGED <<registry, REGISTER_NAME, DEFAULT_HF_PATH, last, files, row, item>>

\* loader.load(**kw): HarmBenchLoader has its own load, the others call the base
Load(l, kw, outcomes) ==
    IF loaders[l].cls = "HarmBenchLoader"
    THEN HarmBenchLoad(l, kw, outcomes)
    ELSE BaseLoad(l, kw, outcomes)

----------------------------------------------------------------------------
(* Specification of the registry: registrations, lookups, constructions *)

RegNames == {"aegis-v1", "harmbench", "custom"}

RegClasses == {"AegisV1Loader", "HarmBenchLoader", "UserLoader"}

ArgPaths == {PyNone, "local/dataset"}

RegSplits == {"train"}

RegistryNext ==
    \/ \E n \in RegNames, c \in RegClasses : Register(n, c)
    \/ \E n \in RegNames, p \in ArgPaths, s \in RegSplits :
          GetLoader(1, n, p, s, EmptyDict)
    \/ \E c \in RegClasses, p \in ArgPaths, s \in RegSplits :
          Construct(1, "construct", PyNone, c, p, s, EmptyDict)

SpecRegistry == Init /\ [][RegistryNext]_vars

----------------------------------------------------------------------------
(* Specification of the Aegis v1 mapping: one row in, one DataItem out *)

\* Category names of the dataset, of which the first NumCategories are used
AegisCategoryNames == <<"Violence", "Hate/Identity Hate", "Sexual", "Needs Caution">>

NumCategories == 2

AegisCategories ==
    {IF k <= Len(AegisCategoryNames) THEN AegisCategoryNames[k] ELSE "Category " \o DecimalStr(k) :
       k \in 1..NumCategories}

Absent == "<absent>"

\* What a labels_i column can hold: no key at all, null, the "None" token, an
\* empty string, "Safe", or a category name
LabelValues == {Absent, PyNone, "None", "", "Safe"} \cup AegisCategories

\* The row with the given five label cells
AegisRow(cells) ==
    [k \in {"text", "text_type"} \cup {LabelKey(i - 1) : i \in {j \in 1..NumAnnotators : cells[j] # Absent}} |->
       IF k = "text" THEN "some text"
       ELSE IF k = "text_type" THEN "user_message"
       ELSE cells[(CHOOSE i \in 1..NumAnnotators : LabelKey(i - 1) = k)]]

AegisRows == {AegisRow(cells) : cells \in [1..NumAnnotators -> LabelValues]}

InitAegisV1 ==
    /\ InitRegistry
    /\ loaders = [l \in LoaderIds |-> NoLoader]
    /\ calls = [l \in LoaderIds |-> IdleCall]
    /\ fetchCount = 0
    /\ last = [op |-> "init", ref |-> 0, name |-> PyNone, cls |-> NoClass,
               path |-> PyNone, error |-> NoError]
    /\ files = NoFiles
    /\ row \in AegisRows
    /\ item = NoItem

\* item = AegisV1Loader.mapping(row)
MapAegisV1 ==
    /\ item = NoItem
    /\ AegisV1MappingError(row) = NoError
    /\ item' = AegisV1Mapping(row)
    /\ UNCHANGED <<registry, REGISTER_NAME, DEFAULT_HF_PATH, loaders, calls,
                   fetchCount, last, files, row>>

SpecAegisV1 == InitAegisV1 /\ [][MapAegisV1]_vars

----------------------------------------------------------------------------
(* Specification of the Aegis v2 mapping: one row in, one DataItem out *)

\* The row holding the cells that are not Absent
RowOf(cells) == [k \in {c \in DOMAIN cells : cells[c] # Absent} |-> cells[k]]

\* What the columns of an Aegis v2 row can hold
AegisV2Labels == {Absent, PyNone, "safe", "unsafe", "Unsafe"}

AegisV2Responses == {Absent, PyNone, "", "none", "None", "NONE", "a reply"}

AegisV2LabelSources == {Absent, "human", "refusal_data_augmentation"}

AegisV2Rows ==
    {RowOf([prompt |-> "a prompt", response |-> resp, prompt_label |-> pl,
            response_label |-> rl, response_label_source |-> src,
            violated_categories |-> vc]) :
       resp \in AegisV2Responses, pl \in AegisV2Labels, rl \in AegisV2Labels,
       src \in AegisV2LabelSources, vc \in {Absent, "Violence"}}

\* No instance, no call, no file: only a row waiting to be mapped
InitMapping ==
    /\ InitRegistry
    /\ loaders = [l \in LoaderIds |-> NoLoader]
    /\ calls = [l \in LoaderIds |-> IdleCall]
    /\ fetchCount = 0
    /\ last = [op |-> "init", ref |-> 0, name |-> PyNone, cls |-> NoClass,
               path |-> PyNone, error |-> NoError]
    /\ files = NoFiles
    /\ item = NoItem

InitAegisV2 == InitMapping /\ row \in AegisV2Rows

\* item = AegisV2Loader.mapping(row)
MapAegisV2 ==
    /\ item = NoItem
    /\ item' = AegisV2Mapping(row)
    /\ UNCHANGED <<registry, REGISTER_NAME, DEFAULT_HF_PATH, loaders, calls,
                   fetchCount, last, files, row>>

SpecAegisV2 == InitAegisV2 /\ [][MapAegisV2]_vars

----------------------------------------------------------------------------
(* Specification of the BeaverTails mapping *)

FlagNames == <<"animal_abuse", "child_abuse", "privacy_violation", "self_harm">>

NumFlags == 3

Flags == {FlagNames[k] : k \in 1..NumFlags}

\* The dicts over the flag names: any keys, in any order, each True or False
FlagDicts ==
    {PyDict(items) :
       items \in {kvs \in UNION {[1..n -> Flags \X {PyTrue, PyFalse}] : n \in 0..NumFlags} :
                    \A i, j \in 1..Len(kvs) : i # j => kvs[i][1] # kvs[j][1]}}

\* [cells EXCEPT ![k] = v], or cells without k when v is Absent
WithCell(r, k, v) ==
    IF v = Absent THEN r ELSE [c \in (DOMAIN r) \cup {k} |-> IF c = k THEN v ELSE r[c]]

BeaverTailsRows ==
    {WithCell([prompt |-> "a prompt", response |-> "a reply", category |-> d], "is_safe", s) :
       d \in FlagDicts \cup {PyNoneCell}, s \in {Absent, PyNone, PyTrue, PyFalse}}
    \cup
    {WithCell([prompt |-> "a prompt", response |-> "a reply"], "is_safe", s) :
       s \in {Absent, PyNone, PyTrue, PyFalse}}

InitBeaverTails == InitMapping /\ row \in BeaverTailsRows

\* item = BeaverTailsLoader.mapping(row)
MapBeaverTails ==
    /\ item = NoItem
    /\ item' = BeaverTailsMapping(row)
    /\ UNCHANGED <<registry, REGISTER_NAME, DEFAULT_HF_PATH, loaders, calls,
                   fetchCount, last, files, row>>

SpecBeaverTails == InitBeaverTails /\ [][MapBeaverTails]_vars

----------------------------------------------------------------------------
(* Specification of the BingoGuard mapping *)

\* The concatenations of one part from each set of the sequence
RECURSIVE Concatenations(_)
Concatenations(parts) ==
    IF parts = <<>> THEN {<<>>}
    ELSE {a \o b : a \in Head(parts), b \in Concatenations(Tail(parts))}

\* Values of the label column: a prefix, a marker, spaces, digits, a suffix
LabelStrings ==
    Concatenations(<<
        {<<>>, <<"u", "n", "s", "a", "f", "e", ":", "v", "i", "o", "l", "e", "n", "c", "e", " ">>, <<"#", "l", "e", "v", "e", "l", ":", " ", "x", " ">>},
        {<<>>, LevelMarker, <<"#", "l", "e", "v", "e", "l">>, <<"l", "e", "v", "e", "l", ":">>},
        {<<>>, <<" ">>, <<" ", "\t">>},
        {<<>>, <<"3">>, <<"0", "7">>},
        {<<>>, <<" ", "4">>}>>)

\* Values of the prompt_label column
PromptLabelStrings ==
    {<<>>, <<"s", "a", "f", "e">>, <<"u", "n", "s", "a", "f", "e">>, <<"u", "n", "s", "a", "f", "e", ":", "v", "i", "o", "l", "e", "n", "c", "e">>, <<"u", "n", "s", "a", "f", "e", ":", " ", "h", "a", "t", "e", " ", "s", "p", "e", "e", "c", "h", " ">>, <<"S", "1", ":", "u", "n", "s", "a", "f", "e", ":", "b">>, <<"u", "n", "s", "a", "f", "e", ":">>, <<"s", "a", "f", "e", " ", "#", "l", "e", "v", "e", "l", ":", " ", "5">>}

\* Values of the response column
ResponseStrings ==
    {<<>>, <<" ", " ">>, <<"n", "o", "n", "e">>, <<"N", "o", "N", "e">>, <<" ", "n", "o", "n", "e">>, <<"a", " ", "r", "e", "p", "l", "y">>}

\* The cells of a column: no key, None, or one of the strings
AbsentCell == [t |-> "absent"]

CellsOf(strings) == {AbsentCell, PyNoneCell} \cup {PyStr(cs) : cs \in strings}

\* The row dict with the cells that are not Absent
BingoGuardRow(cells) == [k \in {c \in DOMAIN cells : cells[c].t # "absent"} |-> cells[k]]

BingoGuardRows ==
    {BingoGuardRow([prompt |-> PyStr(<<"q">>), prompt_label |-> pl, label |-> lb, response |-> resp]) :
       pl \in CellsOf(PromptLabelStrings), lb \in CellsOf(LabelStrings),
       resp \in CellsOf(ResponseStrings)}

InitBingoGuard == InitMapping /\ row \in BingoGuardRows

\* item = BingoGuardLoader.mapping(row)
MapBingoGuard ==
    /\ item = NoItem
    /\ item' = BingoGuardMapping(row)
    /\ UNCHANGED <<registry, REGISTER_NAME, DEFAULT_HF_PATH, loaders, calls,
                   fetchCount, last, files, row>>

SpecBingoGuard == InitBingoGuard /\ [][MapBingoGuard]_vars

----------------------------------------------------------------------------
(* Specification of load(): construct a loader, load, iterate, return *)

BoundedSeqs(S, n) == UNION {[1..k -> S] : k \in 0..n}

MaxRows == 2

LoadClasses == {"AegisV1Loader", "HarmBenchLoader"}

ArgSplits == {"train", "test"}

\* **kwargs given to the constructor
ArgOptions == {EmptyDict, [revision |-> "r1"]}

\* **kwargs given to load()
CallKwargs ==
    {EmptyDict, [split |-> "validation"], [revision |-> "r2"],
     [split |-> "validation", revision |-> "r2"]}

\* Rows the Aegis v1 source may yield: a safe row, a harmful row and a row with
\* a list-valued label
AegisSampleRows ==
    {AegisRow(<<"Safe", "Safe", "Safe", "None", "None">>),
     AegisRow(<<"Violence", "Violence", "Safe", Absent, PyNone>>),
     AegisRow(<<PyUnhashable, "Safe", "Safe", "None", "None">>)}

\* A row of the hub dataset walledai/HarmBench
HubRow == [prompt |-> "a prompt", category |-> "a category"]

\* What load_dataset may do for a HarmBench loader: raise, or yield no row, or one
HubOutcomes == {FetchRaises, FetchReturns(<<>>), FetchReturns(<<HubRow>>)}

FetchOutcomes(cls) ==
    IF cls = "HarmBenchLoader" THEN HubOutcomes
    ELSE {FetchRaises} \cup
         {FetchReturns(rows) : rows \in BoundedSeqs(AegisSampleRows, MaxRows)}

LoadNext ==
    \/ \E c \in LoadClasses, p \in ArgPaths, s \in ArgSplits, o \in ArgOptions :
          Construct(1, "construct", PyNone, c, p, s, o)
    \/ \E kw \in CallKwargs : Load(1, kw, FetchOutcomes(loaders[1].cls))
    \/ LoadStep(1)
    \/ LoadReturn(1)

SpecLoad == Init /\ [][LoadNext]_vars

----------------------------------------------------------------------------
(* Specification of HarmBenchLoader.load() over the two local files *)

MaxCsvRows == 2

MaxCases == 2

CsvPath == "harmbench_behaviors_text_test.csv"

JsonPath == "text_behaviors_val_set.json"

\* Values of the FunctionalCategory column
FunctionalCategories == {"standard", "copyright", "contextual"}

\* The k-th row of a CSV file, with the given functional category
CsvRow(k, fc) ==
    [Behavior |-> "behavior " \o DecimalStr(k), FunctionalCategory |-> fc,
     SemanticCategory |-> "chemical_biological", BehaviorID |-> "id_" \o DecimalStr(k)]

\* CSV files of at most MaxCsvRows rows
CsvFiles ==
    UNION {{[k \in 1..n |-> CsvRow(k, fcs[k])] : fcs \in [1..n -> FunctionalCategories]} :
           n \in 0..MaxCsvRows}

\* Votes of the three annotators, varied from case to case
VotePatterns == <<<<0, 0, 0>>, <<1, 0, 1>>, <<1, 1, 1>>, <<0, 1, 0>>>>

\* The j-th case of the g-th group of a JSON file
JsonCase(g, j) ==
    LET votes == VotePatterns[((g + j) % Len(VotePatterns)) + 1]
    IN [test_case |-> "attack " \o DecimalStr(g) \o "." \o DecimalStr(j),
        generation |-> "reply " \o DecimalStr(g) \o "." \o DecimalStr(j),
        experiment |-> IF j % 2 = 1 THEN "default" ELSE "gcg",
        human_0 |-> votes[1], human_1 |-> votes[2], human_2 |-> votes[3]]

\* The keys of the JSON object, in file order
BehaviorKeys == <<"behavior_a", "behavior_b">>

\* JSON objects with at most MaxCases cases in all, spread over the groups
JsonFiles ==
    {f \in UNION {{[g \in 1..n |-> <<BehaviorKeys[g], [j \in 1..sizes[g] |-> JsonCase(g, j)]>>] :
                     sizes \in [1..n -> 0..MaxCases]} :
                  n \in 0..Len(BehaviorKeys)} :
       Len(FlattenCases(f)) <= MaxCases}

\* query_task_path / response_task_path keywords, for __init__ and for load()
PathKwargs ==
    {EmptyDict, [query_task_path |-> CsvPath], [response_task_path |-> JsonPath],
     [query_task_path |-> CsvPath, response_task_path |-> JsonPath]}

InitHarmBench ==
    /\ InitRegistry
    /\ loaders = [l \in LoaderIds |-> NoLoader]
    /\ calls = [l \in LoaderIds |-> IdleCall]
    /\ fetchCount = 0
    /\ last = [op |-> "init", ref |-> 0, name |-> PyNone, cls |-> NoClass,
               path |-> PyNone, error |-> NoError]
    /\ files \in [csv : CsvFiles, json : JsonFiles]
    /\ row = NoRow
    /\ item = NoItem

HarmBenchNext ==
    \/ \E kw \in PathKwargs :
          Construct(1, "construct", PyNone, "HarmBenchLoader", PyNone, "train", kw)
    \/ \E kw \in PathKwargs : HarmBenchLoad(1, kw, HubOutcomes)
    \/ LoadStep(1)
    \/ LoadReturn(1)

SpecHarmBench == InitHarmBench /\ [][HarmBenchNext]_vars

----------------------------------------------------------------------------
(* Specification of HarmBenchLoader.load() over cases with every vote pattern *)

\* A vote field that the case does not have
NoVote == -1

VoteKeys == <<"human_0", "human_1", "human_2">>

\* The case whose annotator fields hold the votes v (0, 1, or no field)
VoteCase(v) ==
    [k \in {"test_case", "generation", "experiment"} \cup
           {VoteKeys[h] : h \in {n \in 1..3 : v[n] # NoVote}} |->
       IF k = "test_case" THEN "an attack"
       ELSE IF k = "generation" THEN "a reply"
       ELSE IF k = "experiment" THEN "default"
       ELSE v[CHOOSE h \in 1..3 : VoteKeys[h] = k]]

\* JSON objects with no case, and with one case for each vote pattern
VoteFiles ==
    {<<>>} \cup {<<<<BehaviorKeys[1], <<VoteCase(v)>>>>>> : v \in [1..3 -> {NoVote, 0, 1}]}

InitHarmBenchVotes ==
    /\ InitRegistry
    /\ loaders = [l \in LoaderIds |-> NoLoader]
    /\ calls = [l \in LoaderIds |-> IdleCall]
    /\ fetchCount = 0
    /\ last = [op |-> "init", ref |-> 0, name |-> PyNone, cls |-> NoClass,
               path |-> PyNone, error |-> NoError]
    /\ files \in [csv : {f \in CsvFiles : Len(f) <= 1}, json : VoteFiles]
    /\ row = NoRow
    /\ item = NoItem

SpecHarmBenchVotes == InitHarmBenchVotes /\ [][HarmBenchNext]_vars

----------------------------------------------------------------------------
(* Specification of HarmBenchLoader.load() over a 3-row CSV and a 2+3-case JSON *)

\* The sequence seq with x put in after its first p elements
InsertAt(seq, p, x) == SubSeq(seq, 1, p) \o <<x>> \o SubSeq(seq, p + 1, Len(seq))

\* The rows with the given functional categories, numbered in file order
CsvOf(fcs) == [k \in 1..Len(fcs) |-> CsvRow(k, fcs[k])]

\* CSV files with three allow-listed rows, alone or with one out-of-scope row
\* somewhere among them
ThreeRowCsvFiles ==
    {CsvOf(fcs) : fcs \in [1..3 -> AllowedFunctionalCategories]}
    \cup {CsvOf(InsertAt(fcs, p, "contextual")) :
            fcs \in [1..3 -> AllowedFunctionalCategories], p \in 0..3}

\* The JSON object with two groups of 2 and 3 cases
TwoGroupJsonFile ==
    <<<<BehaviorKeys[1], [j \in 1..2 |-> JsonCase(1, j)]>>,
      <<BehaviorKeys[2], [j \in 1..3 |-> JsonCase(2, j)]>>>>

InitHarmBenchExample ==
    /\ InitRegistry
    /\ loaders = [l \in LoaderIds |-> NoLoader]
    /\ calls = [l \in LoaderIds |-> IdleCall]
    /\ fetchCount = 0
    /\ last = [op |-> "init", ref |-> 0, name |-> PyNone, cls |-> NoClass,
               path |-> PyNone, error |-> NoError]
    /\ files \in [csv : ThreeRowCsvFiles, json : {TwoGroupJsonFile}]
    /\ row = NoRow
    /\ item = NoItem

SpecHarmBenchExample == InitHarmBenchExample /\ [][HarmBenchNext]_vars

----------------------------------------------------------------------------
(* Specification of two loader instances whose load() calls interleave *)

TwoLoaderClasses == {"AegisV1Loader", "BeaverTailsLoader"}

\* The rows each source yields, in its order (repeated when more are asked for)
SourceRows(cls) ==
    IF cls = "BeaverTailsLoader"
    THEN <<[prompt |-> "a prompt", response |-> "a reply", is_safe |-> PyFalse,
            category |-> PyDict(<<<<FlagNames[1], PyTrue>>, <<FlagNames[2], PyFalse>>>>)],
           [prompt |-> "another prompt", response |-> "another reply", is_safe |-> PyTrue,
            category |-> PyDict(<<<<FlagNames[1], PyFalse>>>>)]>>
    ELSE <<AegisRow(<<"Violence", "Violence", "Safe", Absent, PyNone>>),
           AegisRow(<<"Safe", "Safe", "Safe", "None", "None">>)>>

\* The first n rows of the source
FirstRows(cls, n) ==
    [k \in 1..n |-> SourceRows(cls)[((k - 1) % Len(SourceRows(cls))) + 1]]

\* load_dataset yields the rows of a split of the source
RowOutcomes(cls) == {FetchReturns(FirstRows(cls, n)) : n \in 0..MaxRows}

TwoLoaderKwargs == {EmptyDict, [split |-> "validation"]}

TwoLoadersNext ==
    \/ \E l \in LoaderIds, c \in TwoLoaderClasses :
          Construct(l, "construct", PyNone, c, PyNone, "train", EmptyDict)
    \/ \E l \in LoaderIds, kw \in TwoLoaderKwargs : Load(l, kw, RowOutcomes(loaders[l].cls))
    \/ \E l \in LoaderIds : LoadStep(l)
    \/ \E l \in LoaderIds : LoadReturn(l)

SpecTwoLoaders == Init /\ [][TwoLoadersNext]_vars

----------------------------------------------------------------------------
(* Claims about the registry (checked under SpecRegistry) *)

\* C3 (as stated): registering a name that is already bound fails and leaves the
\* binding alone, so a bound name keeps the first implementation registered
\* under it.
C3_FirstRegistrationKept ==
    [][\A n \in Names : registry[n] # NoClass => registry'[n] = registry[n]]_vars

\* C3 (amended): register(name) never fails, bound name or not; it binds the
\* name to the class it is given and touches no other name, so the class bound
\* to a name is the last one registered under it; nothing but register changes
\* the table.
C3_LastRegistrationWins ==
    [][/\ last'.op = "register" =>
            /\ last'.error = NoError
            /\ registry' = [registry EXCEPT ![last'.name] = last'.cls]
       /\ last'.op # "register" => registry' = registry]_vars

\* C3 witness: "aegis-v1", bound to AegisV1Loader by the package, was registered
\* again with another class and is now bound to that class.
C3_Witness ==
    /\ last.op = "register"
    /\ last.name = "aegis-v1"
    /\ last.cls = "UserLoader"
    /\ registry["aegis-v1"] = "UserLoader"

\* C4: get_loader(name) raises the unknown-loader error exactly when the name
\* is not bound in the table, and then it constructs no loader and leaves the
\* table and the class attributes as they were.
C4_UnknownLoaderRejected ==
    [][last'.op = "get_loader" =>
         /\ (last'.error = ErrUnknownLoader) <=> (registry[last'.name] = NoClass)
         /\ last'.error = ErrUnknownLoader =>
               /\ loaders' = loaders
               /\ calls' = calls
               /\ fetchCount' = fetchCount
               /\ registry' = registry
               /\ REGISTER_NAME' = REGISTER_NAME
               /\ DEFAULT_HF_PATH' = DEFAULT_HF_PATH]_vars

\* C4 witness: a lookup of the never-registered name "custom" was rejected
\* while a loader built earlier is still the one held.
C4_Witness ==
    /\ last.op = "get_loader"
    /\ last.name = "custom"
    /\ last.error = ErrUnknownLoader
    /\ registry["custom"] = NoClass
    /\ loaders[1] # NoLoader

\* C5: a construction (direct or through get_loader) yields a loader whose
\* path is the passed path when one is passed and the class default otherwise;
\* it fails with the unbound-path error exactly when neither exists, and then
\* no instance is created and nothing is fetched; every loader has a path.
C5_SourceResolved ==
    /\ [](\A l \in LoaderIds : loaders[l] # NoLoader => Truthy(loaders[l].path))
    /\ [][(last'.op \in {"get_loader", "construct"} /\ last'.error # ErrUnknownLoader) =>
            /\ last'.error \in {NoError, ErrUnboundPath}
            /\ (last'.error = ErrUnboundPath) <=>
                  (~Truthy(last'.path) /\ ~Truthy(DEFAULT_HF_PATH[last'.cls]))
            /\ last'.error = NoError =>
                  /\ loaders'[last'.ref].cls = last'.cls
                  /\ loaders'[last'.ref].path =
                        IF Truthy(last'.path) THEN last'.path
                        ELSE DEFAULT_HF_PATH[last'.cls]
            /\ last'.error = ErrUnboundPath =>
                  /\ loaders' = loaders
                  /\ calls' = calls
                  /\ fetchCount' = fetchCount]_vars

\* C5 witness: a class with no default path was constructed without a path and
\* was refused, after the same reference had received a loader built from a
\* class default.
C5_Witness ==
    /\ last.op \in {"get_loader", "construct"}
    /\ last.error = ErrUnboundPath
    /\ last.path = PyNone
    /\ loaders[1] # NoLoader
    /\ loaders[1].path = HF_DATASET_IDS["aegis-v1"]

----------------------------------------------------------------------------
(* Claims about the Aegis v1 mapping (checked under SpecAegisV1) *)

\* The cell of annotator i (0-based) as mapping() reads it: row.get(f"labels_{i}")
Cell(i) == DictGet(row, LabelKey(i))

Annotators == 0..(NumAnnotators - 1)

\* An abstention: a missing or null cell, or the "None" token
Abstained(i) == Cell(i) \in {PyNone, "None"}

\* C8: a row all of whose five labels are abstentions (missing, null or "None")
\* maps to category "None" and query_harmful_label null.
C8_AllAbstainedGivesNull ==
    (item # NoItem /\ \A i \in Annotators : Abstained(i)) =>
        (item.category = "None" /\ item.query_harmful_label = PyNone)

\* C9: with at least one label that is not an abstention, query_harmful_label
\* is true exactly when every label that is not an abstention differs from
\* "Safe" (and false otherwise), whichever label wins the vote.
C9_HarmfulIffNoSafeLabel ==
    (item # NoItem /\ \E i \in Annotators : ~Abstained(i)) =>
        /\ item.query_harmful_label \in {PyTrue, PyFalse}
        /\ (item.query_harmful_label = PyTrue) <=>
             (\A i \in Annotators : ~Abstained(i) => Cell(i) # "Safe")

\* C9 witness: one "Safe" label and two "Violence" labels: the vote gives
\* "Violence" and the flag is false.
C9_Witness ==
    /\ item # NoItem
    /\ Cell(0) = "Safe" /\ Cell(1) = "Violence" /\ Cell(2) = "Violence"
    /\ Cell(3) = "None" /\ Cell(4) = PyNone
    /\ item.category = "Violence"
    /\ item.query_harmful_label = PyFalse

\* A cell that takes part in the vote: it holds a label, i.e. it is neither an
\* abstention nor an empty string
Votes(i) == ~Abstained(i) /\ Cell(i) # ""

VoteCount(x) == Cardinality({i \in Annotators : Votes(i) /\ Cell(i) = x})

FirstVote(x) == CHOOSE i \in Annotators :
                  /\ Votes(i) /\ Cell(i) = x
                  /\ \A j \in Annotators : (Votes(j) /\ Cell(j) = x) => i <= j

----------------------------------------------------------------------------
(* Claims about load() (checked under SpecLoad) *)

\* The loader held by reference l has a load() that only calls the base load()
UsesBaseLoad(l) == loaders[l] # NoLoader /\ loaders[l].cls # "HarmBenchLoader"

\* "{registration_name}-{k:06d}" for a one-digit k
IdOfRow(l, k) == REGISTER_NAME[loaders[l].cls] \o "-00000" \o ToString(k)

\* The Record expected at position k of a load() over the rows fetched
RecordOfRow(l, k) ==
    [MappingOf(loaders[l].cls, calls[l].dataset[k]) EXCEPT !.id = IdOfRow(l, k)]

\* C1: for every loader that uses the base load() and every row sequence of
\* length N, load() returns exactly N Records, the k-th being the mapping of the
\* k-th row with id "{registration_name}-{k:06d}"; the ids are pairwise distinct
\* and follow row order (and while load() iterates, the Records collected so far
\* are those of the rows consumed so far).
C1_IdsFollowRowOrder ==
    \A l \in LoaderIds :
        UsesBaseLoad(l) =>
            /\ calls[l].pc = "loop" =>
                  /\ Len(calls[l].results) = calls[l].i
                  /\ \A k \in 1..calls[l].i : calls[l].results[k] = RecordOfRow(l, k)
            /\ calls[l].pc = "returned" =>
                  /\ Len(calls[l].returned) = Len(calls[l].dataset)
                  /\ \A k \in 1..Len(calls[l].dataset) :
                        calls[l].returned[k] = RecordOfRow(l, k)
                  /\ \A j, k \in 1..Len(calls[l].returned) :
                        j # k => calls[l].returned[j].id # calls[l].returned[k].id

\* A load() of an Aegis v1 loader has returned the Records of two different rows
C1_Witness ==
    /\ UsesBaseLoad(1)
    /\ calls[1].pc = "returned"
    /\ Len(calls[1].dataset) = 2
    /\ calls[1].dataset[1] # calls[1].dataset[2]
    /\ calls[1].returned[2].id = "aegis-v1-000002"

\* The keyword arguments of the call that reach the base load()
OverridesOf(l) == DictWithout(calls[l].args, HarmBenchPathKeys)

\* A load() call of loader l has reached the fetch collaborator
Fetched(l) == loaders[l] # NoLoader /\ calls[l].fetch_path # PyNone

\* C6: the options passed by load() to the fetch collaborator are the retained
\* construction-time configuration overlaid by the call-time overrides, and the
\* effective split is the call-time split when one is given and otherwise the
\* split retained at construction.
C6_RetainedSplitIsDefault ==
    \A l \in LoaderIds :
        Fetched(l) =>
            /\ calls[l].final_kwargs = DictMerge(loaders[l].init_kwargs, OverridesOf(l))
            /\ calls[l].current_split =
                 IF "split" \in DOMAIN OverridesOf(l)
                 THEN OverridesOf(l)["split"]
                 ELSE loaders[l].init_kwargs["split"]

\* What the loop statement of load() does to the activation c, for class cls
C7_LoopStep(c, c2, cls) ==
    IF c.i < Len(c.dataset) /\ RowError(cls, c.dataset[c.i + 1]) # NoError
    THEN /\ c2.pc = "raised"
         /\ c2.error = RowError(cls, c.dataset[c.i + 1])
         /\ c2.returned = <<>>
         /\ c2.i = c.i
         /\ c2.results = c.results
    ELSE IF c.i < Len(c.dataset)
    THEN c2.pc = "loop" /\ c2.i = c.i + 1 /\ c2.returned = <<>>
    ELSE c2.pc = "returned" /\ c2.returned = c.results /\ c2.error = NoError

\* C7: if the fetch collaborator or the mapping of a row k raises during load(),
\* that error is what load() raises, no later row is mapped, and no partial
\* sequence of Records is returned: load() returns one Record per row fetched,
\* or raises and returns nothing.
C7_ErrorAbortsLoad ==
    [][\A l \in LoaderIds :
          LET c == calls[l]
              c2 == calls'[l]
          IN /\ (c.pc = "loop" /\ c2 # c) => C7_LoopStep(c, c2, loaders[l].cls)
             /\ (c.pc # "loop" /\ c2 # c /\ fetchCount' # fetchCount) =>
                   \/ c2.pc = "loop" /\ c2.error = NoError /\ c2.i = 0
                   \/ /\ c2.pc = "raised"
                      /\ c2.error = FetchError
                      /\ c2.dataset = <<>>
                      /\ c2.results = <<>>
             /\ (c.pc = "raised" /\ fetchCount' = fetchCount) => c2 \in {c, IdleCall}
             /\ c2.pc = "raised" => c2.returned = <<>> /\ c2.error # NoError
             /\ (c2.pc = "returned" /\ c2.fetch_path # PyNone) =>
                   /\ Len(c2.returned) = Len(c2.dataset)
                   /\ c2.error = NoError]_vars

\* load() has raised the error of the mapping of its second row, after the first
\* row was mapped
C7_Witness ==
    /\ calls[1].pc = "raised"
    /\ calls[1].i = 1
    /\ Len(calls[1].results) = 1
    /\ calls[1].error = RowError(loaders[1].cls, calls[1].dataset[2])
    /\ loaders[1].cls = "AegisV1Loader"

----------------------------------------------------------------------------
(* Claims about HarmBenchLoader.load() (checked under SpecHarmBench) *)

\* The file input named by key, as given to the call or else to the constructor
FileInput(l, key) ==
    IF DictGet(calls[l].args, key) \notin {PyNone, ""}
    THEN DictGet(calls[l].args, key)
    ELSE DictGet(loaders[l].init_kwargs, key)

\* A load() call of loader l, made with both file inputs present, has ended
CalledWithBothFiles(l) ==
    /\ loaders[l] # NoLoader
    /\ calls[l].pc \in {"returned", "raised"}
    /\ FileInput(l, "query_task_path") \notin {PyNone, ""}
    /\ FileInput(l, "response_task_path") \notin {PyNone, ""}

\* The rows of the tabular file whose functional category is on the allow-list
AllowListed(csv) ==
    SelectSeq(csv, LAMBDA r : r.FunctionalCategory \in {"standard", "copyright"})

\* The number of cases of the nested file
CaseCount(json) == Len(FlattenCases(json))

\* The result holds the allow-listed rows, then the cases, numbered 1..T+C
MergedUnderOneCounter(l) ==
    LET kept == AllowListed(files.csv)
        flat == FlattenCases(files.json)
        out == calls[l].returned
    IN /\ calls[l].pc = "returned"
       /\ Len(out) = Len(kept) + Len(flat)
       /\ \A k \in 1..Len(out) : out[k].id = IdOfRow(l, k)
       /\ \A k \in 1..Len(kept) :
             out[k].query = kept[k].Behavior /\ out[k].extra.source_file = "behavior_csv"
       /\ \A k \in 1..Len(flat) :
             /\ out[Len(kept) + k].query = flat[k].test_case
             /\ out[Len(kept) + k].extra.source_file = "response_json"

\* C2: HarmBench load() with a tabular file and a nested file returns the
\* allow-listed tabular rows in file order followed by the nested cases flattened
\* in encounter order, with ids from one counter: the T kept rows get 1..T and
\* the C cases get T+1..T+C.
C2_FilesMergedUnderOneCounter ==
    \A l \in LoaderIds : CalledWithBothFiles(l) => MergedUnderOneCounter(l)

----------------------------------------------------------------------------
(* Claims about the Aegis v2 mapping (checked under SpecAegisV2) *)

\* The "none" token in the letter cases the rows use
NoneTokens == {"none", "None", "NONE"}

\* The row carries no response text: no key, null, empty, or the "none" token
NoResponseText(r) == DictGet(r, "response") \in {PyNone, ""} \cup NoneTokens

\* C11: in the direct categorical family (Aegis v2), every row whose response
\* text is absent, empty or the token "none" in any letter case maps to a
\* Record with response_harmful_label null, whatever prompt_label and
\* response_label are.
C11_NoResponseGivesNull ==
    (item # NoItem /\ NoResponseText(row)) => item.response_harmful_label = PyNone

----------------------------------------------------------------------------
(* Claims about the BeaverTails mapping (checked under SpecBeaverTails) *)

\* The items of the row's flag dictionary: none when it is null or missing
FlagItems ==
    IF "category" \in DOMAIN row /\ row["category"].t = "dict"
    THEN row["category"].items ELSE <<>>

\* The positions of the flags whose value is true
TruePositions == {i \in 1..Len(FlagItems) : FlagItems[i][2] = PyTrue}

\* The names at the positions ps from position i on, each followed by ';'
RECURSIVE NamesFrom(_, _)
NamesFrom(i, ps) ==
    IF i > Len(FlagItems) THEN ""
    ELSE (IF i \in ps THEN FlagItems[i][1] \o ";" ELSE "") \o NamesFrom(i + 1, ps)

----------------------------------------------------------------------------
(* Claims about the BingoGuard mapping (checked under SpecBingoGuard) *)

\* The characters of a column of the row: none when it is missing or null
CharsOf(key) ==
    IF key \in DOMAIN row /\ row[key].t = "str" THEN row[key].chars ELSE <<>>

Blank(ch) == ch \in {" ", "\t"}

DigitNumber ==
    [ch \in {"0", "1", "2", "3", "4", "5", "6", "7", "8", "9"} |->
       CASE ch = "0" -> 0 [] ch = "1" -> 1 [] ch = "2" -> 2 [] ch = "3" -> 3
         [] ch = "4" -> 4 [] ch = "5" -> 5 [] ch = "6" -> 6 [] ch = "7" -> 7
         [] ch = "8" -> 8 [] ch = "9" -> 9]

\* In cs, "#level:" stands at i..i+6
MarkerAt(cs, i) ==
    /\ i + 6 <= Len(cs)
    /\ <<cs[i], cs[i + 1], cs[i + 2], cs[i + 3], cs[i + 4], cs[i + 5], cs[i + 6]>>
         = <<"#", "l", "e", "v", "e", "l", ":">>

\* After the marker at i, blanks fill i+7..j-1 and j..k is the whole run of
\* digits that follows
DigitsAfter(cs, i, j, k) ==
    /\ \A m \in (i + 7)..(j - 1) : Blank(cs[m])
    /\ \A m \in j..k : cs[m] \in DOMAIN DigitNumber
    /\ k < Len(cs) => cs[k + 1] \notin DOMAIN DigitNumber

\* The positions where "#level:", optional blanks and a digit stand
LevelStarts(cs) ==
    {i \in 1..Len(cs) :
       MarkerAt(cs, i) /\ \E j \in (i + 7)..Len(cs) : \E k \in j..Len(cs) : DigitsAfter(cs, i, j, k)}

\* The integer written by the digits cs[j..k]
RECURSIVE NumberAt(_, _, _)
NumberAt(cs, j, k) ==
    IF j > k THEN 0 ELSE 10 * NumberAt(cs, j, k - 1) + DigitNumber[cs[k]]

\* C13: extra.severity is the integer formed by the digits following "#level:"
\* (optional whitespace allowed) in the label field, and depends on that field
\* only; it is null (never 0) when the field is missing, null, or holds no
\* "#level:" followed by at least one digit.
C13_SeverityFromLabelOnly ==
    item # NoItem =>
        LET cs == CharsOf("label")
        IN IF LevelStarts(cs) # {}
           THEN \E i \in LevelStarts(cs) :
                   /\ \A i2 \in LevelStarts(cs) : i <= i2
                   /\ \E j \in (i + 7)..Len(cs) : \E k \in j..Len(cs) :
                         /\ DigitsAfter(cs, i, j, k)
                         /\ item.extra.severity = [t |-> "int", v |-> NumberAt(cs, j, k)]
           ELSE item.extra.severity = [t |-> "none"]

\* The label "#level: x #level: 3" (its first marker is followed by no digit)
\* gave severity 3 although prompt_label holds "#level: 5"
C13_Witness ==
    /\ item # NoItem
    /\ CharsOf("label") = <<"#", "l", "e", "v", "e", "l", ":", " ", "x", " ", "#", "l", "e", "v", "e", "l", ":", " ", "3">>
    /\ CharsOf("prompt_label") = <<"s", "a", "f", "e", " ", "#", "l", "e", "v", "e", "l", ":", " ", "5">>
    /\ item.extra.severity = [t |-> "int", v |-> 3]

\* t is u without its leading and trailing blanks
IsTrimOf(t, u) ==
    \E a \in 1..(Len(u) + 1) : \E b \in (a - 1)..Len(u) :
        /\ t = [m \in 1..(b - a + 1) |-> u[a + m - 1]]
        /\ \A m \in 1..(a - 1) : Blank(u[m])
        /\ \A m \in (b + 1)..Len(u) : Blank(u[m])
        /\ t # <<>> => ~Blank(t[1]) /\ ~Blank(t[Len(t)])

HasColon(cs) == \E i \in 1..Len(cs) : cs[i] = ":"

HasUnsafe(cs) ==
    \E i \in 1..(Len(cs) - 5) :
        <<cs[i], cs[i + 1], cs[i + 2], cs[i + 3], cs[i + 4], cs[i + 5]>> = <<"u", "n", "s", "a", "f", "e">>

\* C14: if prompt_label contains a colon, category is the trimmed substring
\* after its last colon; with no colon but the substring "unsafe", category is
\* "unsafe"; in every other case (a missing or empty label included) category
\* is "safe" and query_harmful_label is false.
C14_CategoryAfterLastColon ==
    item # NoItem =>
        LET cs == CharsOf("prompt_label")
        IN /\ item.category.t = "str"
           /\ HasColon(cs) =>
                 \E i \in 1..Len(cs) :
                     /\ cs[i] = ":"
                     /\ \A m \in (i + 1)..Len(cs) : cs[m] # ":"
                     /\ IsTrimOf(item.category.chars, [m \in 1..(Len(cs) - i) |-> cs[i + m]])
           /\ (~HasColon(cs) /\ HasUnsafe(cs)) => item.category.chars = <<"u", "n", "s", "a", "f", "e">>
           /\ (~HasColon(cs) /\ ~HasUnsafe(cs)) =>
                 /\ item.category.chars = <<"s", "a", "f", "e">>
                 /\ item.query_harmful_label = PyFalse

\* A prompt_label with two colons has been mapped to what follows the second
C14_Witness ==
    /\ item # NoItem
    /\ CharsOf("prompt_label") = <<"S", "1", ":", "u", "n", "s", "a", "f", "e", ":", "b">>
    /\ item.category.chars = <<"b">>

----------------------------------------------------------------------------
(* Claims about every mapping (the BeaverTails one is checked, under SpecBeaverTails) *)

\* The row carries no value for the field: no key, or null
NoValueFor(r, key) == DictGet(r, key) = PyNone

\* C15: each of query_harmful_label, response_harmful_label and
\* response_refusal_label is null whenever the row carries no value for the
\* source field it is derived from (for BeaverTails: both harmful labels come
\* from is_safe); a missing or null label is never turned into false or true.
C15_SilenceGivesNull ==
    (item # NoItem /\ NoValueFor(row, "is_safe")) =>
        /\ item.query_harmful_label = PyNone
        /\ item.response_harmful_label = PyNone

----------------------------------------------------------------------------
(* Further claims about HarmBenchLoader.load() (checked under SpecHarmBench) *)

\* The file input named by key was given, to the call or to the constructor
FilePresent(l, key) == FileInput(l, key) \notin {PyNone, ""}

\* The result holds exactly n records, numbered from 1, all of one sub-source
OnlyRecordsOf(l, source_file, n) ==
    /\ calls[l].pc = "returned"
    /\ Len(calls[l].returned) = n
    /\ \A k \in 1..n :
          /\ calls[l].returned[k].id = IdOfRow(l, k)
          /\ calls[l].returned[k].extra.source_file = source_file

\* C16: when exactly one of the two file inputs is absent, the result consists
\* only of the other file's records with ids starting at 1; the generic fetch
\* of the base loader is taken when, and only when, both file inputs are absent
\* at construction and at call time.
C16_GenericFetchIffNoFiles ==
    \A l \in LoaderIds :
        (loaders[l] # NoLoader /\ calls[l].pc # "idle") =>
            /\ Fetched(l) <=>
                 (~FilePresent(l, "query_task_path") /\ ~FilePresent(l, "response_task_path"))
            /\ (FilePresent(l, "query_task_path") /\ ~FilePresent(l, "response_task_path")) =>
                 OnlyRecordsOf(l, "behavior_csv", Len(AllowListed(files.csv)))
            /\ (~FilePresent(l, "query_task_path") /\ FilePresent(l, "response_task_path")) =>
                 OnlyRecordsOf(l, "response_json", CaseCount(files.json))

----------------------------------------------------------------------------
(* Claims about the HarmBench labels (checked under SpecHarmBenchVotes) *)

\* The annotator fields of the case that hold a 1
VotesFor(case) == {h \in {"human_0", "human_1", "human_2"} : h \in DOMAIN case /\ case[h] = 1}

\* The case that record k of the result of loader l was made from
CaseOfRecord(l, k) ==
    FlattenCases(files.json)[k - (Len(calls[l].returned) - CaseCount(files.json))]

\* The result of loader l was built from the two files
BuiltFromFiles(l) ==
    loaders[l] # NoLoader /\ calls[l].pc = "returned" /\ ~Fetched(l)

\* C17: for every flattened nested case, response_harmful_label is true if and
\* only if strictly more than one of human_0, human_1, human_2 is 1 (a missing
\* field counts as 0), and query_harmful_label is true for every record of both
\* sub-sources.
C17_HarmfulIffTwoVotes ==
    \A l \in LoaderIds :
        BuiltFromFiles(l) =>
            \A k \in 1..Len(calls[l].returned) :
                /\ calls[l].returned[k].query_harmful_label = PyTrue
                /\ calls[l].returned[k].extra.source_file = "response_json" =>
                      /\ calls[l].returned[k].response_harmful_label \in {PyTrue, PyFalse}
                      /\ (calls[l].returned[k].response_harmful_label = PyTrue) <=>
                           (Cardinality(VotesFor(CaseOfRecord(l, k))) > 1)

\* A case with two votes and one missing field came out harmful, after a
\* tabular record
C17_Witness ==
    /\ BuiltFromFiles(1)
    /\ Len(calls[1].returned) = 2
    /\ calls[1].returned[1].extra.source_file = "behavior_csv"
    /\ DOMAIN CaseOfRecord(1, 2) \cap {"human_0", "human_1", "human_2"} = {"human_0", "human_2"}
    /\ VotesFor(CaseOfRecord(1, 2)) = {"human_0", "human_2"}
    /\ calls[1].returned[2].response_harmful_label = PyTrue

----------------------------------------------------------------------------
(* Claims about the merge example (checked under SpecHarmBenchExample) *)

\* A load() of loader l over both files has ended
LoadedBothFiles(l) ==
    /\ loaders[l] # NoLoader
    /\ calls[l].pc \in {"returned", "raised"}
    /\ FilePresent(l, "query_task_path")
    /\ FilePresent(l, "response_task_path")

\* The first three records are the allow-listed rows, numbered 1..3
TabularRecordsFirst(l) ==
    \A k \in 1..3 :
        /\ calls[l].returned[k].id = IdOfRow(l, k)
        /\ calls[l].returned[k].query = AllowListed(files.csv)[k].Behavior
        /\ calls[l].returned[k].response = PyNone

\* C18 as stated: a tabular file with 3 allow-listed rows and a nested file
\* with 2 groups of 2 and 3 cases produce exactly 5 Records, with ids
\* {name}-000001..000003 for the tabular rows and {name}-000004..000005 for
\* the nested cases.
C18_FiveRecords ==
    \A l \in LoaderIds :
        LoadedBothFiles(l) =>
            /\ calls[l].pc = "returned"
            /\ Len(calls[l].returned) = 5
            /\ TabularRecordsFirst(l)
            /\ \A k \in 4..5 : calls[l].returned[k].id = IdOfRow(l, k)

\* C18, amended: the two files produce exactly 8 Records: the 3 tabular rows
\* with ids {name}-000001..000003, then the 5 nested cases, flattened across
\* the groups in encounter order, with ids {name}-000004..000008.
C18_EightRecords ==
    \A l \in LoaderIds :
        LoadedBothFiles(l) =>
            /\ calls[l].pc = "returned"
            /\ Len(calls[l].returned) = 8
            /\ TabularRecordsFirst(l)
            /\ \A k \in 4..8 : calls[l].returned[k].id = IdOfRow(l, k)
            /\ \A j \in 1..2 :
                  calls[l].returned[3 + j].query = files.json[1][2][j].test_case
            /\ \A j \in 1..3 :
                  calls[l].returned[5 + j].query = files.json[2][2][j].test_case

\* The two files were loaded, the CSV holding an out-of-scope row as well
C18_Witness ==
    /\ LoadedBothFiles(1)
    /\ Len(files.csv) = 4
    /\ files.csv[2].FunctionalCategory = "contextual"
    /\ Len(calls[1].returned) = 8
    /\ calls[1].returned[8].id = "harmbench-000008"

----------------------------------------------------------------------------
(* Claims about repeated and interleaved loads (checked under SpecTwoLoaders) *)

\* The load() calls of l1 and l2 were made with the same arguments, on loaders
\* built with the same arguments, over the same rows, and both have returned
SameLoad(l1, l2) ==
    /\ loaders[l1] # NoLoader
    /\ loaders[l1] = loaders[l2]
    /\ calls[l1].pc = "returned" /\ calls[l2].pc = "returned"
    /\ calls[l1].args = calls[l2].args
    /\ calls[l1].dataset = calls[l2].dataset

\* C19: two load() calls with the same arguments on loaders built with the same
\* arguments, over a source that yields the same rows in the same order, return
\* identical Record sequences including every id, whatever calls were made
\* before; no id is a random value.
C19_SameInputsSameRecords ==
    \A l1, l2 \in LoaderIds :
        /\ SameLoad(l1, l2) => calls[l1].returned = calls[l2].returned
        /\ calls[l1].pc = "returned" =>
              \A k \in 1..Len(calls[l1].returned) : calls[l1].returned[k].id \notin Uuids

\* Two loaders built alike have returned the same two Records, one of them on
\* a call that followed an earlier call
C19_Witness ==
    /\ SameLoad(1, 2)
    /\ fetchCount = 3
    /\ Len(calls[1].returned) = 2
    /\ calls[1].returned = calls[2].returned

\* The other loader reference
Other(l) == CHOOSE o \in LoaderIds : o # l

\* The Records a load() of loader l over the rows ds returns when run alone
AloneResult(l, ds) ==
    [k \in 1..Len(ds) |->
       [MappingOf(loaders[l].cls, ds[k])
        EXCEPT !.id = REGISTER_NAME[loaders[l].cls] \o "-00000" \o ToString(k)]]

\* C20: when load() calls of two loader instances are interleaved row by row,
\* a step of one call leaves the other call and the other loader's retained
\* configuration as they were, and each call returns the sequence it would
\* return when run alone, with ids 1..N.
C20_InterleavedLoadsIndependent ==
    [][\A l \in LoaderIds :
          (calls[l].pc = "loop" /\ calls'[l] # calls[l]) =>
              /\ calls'[Other(l)] = calls[Other(l)]
              /\ loaders' = loaders
              /\ REGISTER_NAME' = REGISTER_NAME
              /\ calls'[l].dataset = calls[l].dataset
              /\ calls'[l].results = AloneResult(l, SubSeq(calls[l].dataset, 1, calls'[l].i))
              /\ calls'[l].pc = "returned" =>
                    calls'[l].returned = AloneResult(l, calls[l].dataset)]_vars

\* Both loaders, of different classes, are half way through their rows
C20_Witness ==
    /\ loaders[1].cls = "AegisV1Loader"
    /\ loaders[2].cls = "BeaverTailsLoader"
    /\ \A l \in LoaderIds :
          calls[l].pc = "loop" /\ calls[l].i = 1 /\ Len(calls[l].dataset) = 2

----------------------------------------------------------------------------
(* A further claim about the BingoGuard mapping (checked under SpecBingoGuard) *)

\* The row has no response: no key or null
ResponseMissing == ~("response" \in DOMAIN row /\ row["response"].t = "str")

\* cs is "none" in some letter case
IsNoneWord(cs) ==
    /\ Len(cs) = 4
    /\ cs[1] \in {"n", "N"} /\ cs[2] \in {"o", "O"}
    /\ cs[3] \in {"n", "N"} /\ cs[4] \in {"e", "E"}

\* C21: response_harmful_label is null when the response is missing or null,
\* empty or whitespace-only, or equals "none" in any letter case, and otherwise
\* equals query_harmful_label; query_harmful_label depends on prompt_label only.
C21_ResponseLabelNullOrQueryLabel ==
    item # NoItem =>
        LET cs == CharsOf("response")
            silent == \/ ResponseMissing
                      \/ \A k \in 1..Len(cs) : Blank(cs[k])
                      \/ IsNoneWord(cs)
        IN /\ silent => item.response_harmful_label = PyNone
           /\ ~silent => item.response_harmful_label = item.query_harmful_label
           /\ item.query_harmful_label = PyBool(HasUnsafe(CharsOf("prompt_label")))

\* The response "NoNe" under an unsafe prompt_label gave a null response label
\* and a true query label
C21_Witness ==
    /\ item # NoItem
    /\ CharsOf("response") = <<"N", "o", "N", "e">>
    /\ item.response_harmful_label = PyNone
    /\ item.query_harmful_label = PyTrue

----------------------------------------------------------------------------
(* Claims about the registry's class attributes (checked under SpecRegistry) *)

\* The prefix of the ids a loader of class cls generates now
IdPrefixOf(cls) == REGISTER_NAME[cls]

\* The static table's identifier for a name, PyNone when it has none
TableIdOf(name) ==
    IF name \in DOMAIN HF_DATASET_IDS THEN HF_DATASET_IDS[name] ELSE PyNone

\* C22: after any sequence of register calls, a loader obtained through
\* get_loader(n) generates ids whose prefix is n and, when no identifier is
\* passed, uses the static table's identifier for n; the registration name and
\* the default identifier attached to a bound class belong to the name it is
\* looked up under.
C22_AttributesFollowLookupName ==
    /\ (last.op = "get_loader" /\ last.error = NoError) =>
          /\ generate_id(REGISTER_NAME, loaders[last.ref].cls, 1) =
                last.name \o "-" \o ZeroPad(DecimalStr(1), IdWidth)
          /\ ~Truthy(last.path) => loaders[last.ref].path = TableIdOf(last.name)
    /\ \A n \in Names :
          registry[n] # NoClass =>
             /\ IdPrefixOf(registry[n]) = n
             /\ Truthy(DEFAULT_HF_PATH[registry[n]]) =>
                   DEFAULT_HF_PATH[registry[n]] = TableIdOf(n)

----------------------------------------------------------------------------
(* Specification of repeated load() calls on one instance, with call-time
   overrides and file paths *)

\* One allow-listed CSV row and one JSON case
RetainedFiles ==
    [csv |-> <<CsvRow(1, "standard")>>,
     json |-> <<<<BehaviorKeys[1], <<JsonCase(1, 1)>>>>>>]

\* **kwargs given to the constructor of a class
RetainedOptions(cls) ==
    IF cls = "HarmBenchLoader" THEN PathKwargs \cup ArgOptions ELSE ArgOptions

\* **kwargs given to load() of a class
RetainedCallKwargs(cls) ==
    IF cls = "HarmBenchLoader" THEN PathKwargs \cup CallKwargs ELSE CallKwargs

\* What load_dataset may do: raise, or yield rows
RetainedOutcomes(cls) ==
    IF cls = "HarmBenchLoader" THEN HubOutcomes
    ELSE {FetchRaises} \cup RowOutcomes(cls)

InitRetained ==
    /\ InitRegistry
    /\ loaders = [l \in LoaderIds |-> NoLoader]
    /\ calls = [l \in LoaderIds |-> IdleCall]
    /\ fetchCount = 0
    /\ last = [op |-> "init", ref |-> 0, name |-> PyNone, cls |-> NoClass,
               path |-> PyNone, error |-> NoError]
    /\ files = RetainedFiles
    /\ row = NoRow
    /\ item = NoItem

RetainedNext ==
    \/ \E c \in LoadClasses, s \in ArgSplits :
          \E o \in RetainedOptions(c) :
             Construct(1, "construct", PyNone, c, PyNone, s, o)
    \/ \E kw \in RetainedCallKwargs(loaders[1].cls) :
          Load(1, kw, RetainedOutcomes(loaders[1].cls))
    \/ LoadStep(1)
    \/ LoadReturn(1)

SpecRetained == InitRetained /\ [][RetainedNext]_vars

----------------------------------------------------------------------------
(* Claims about what load() leaves behind (checked under SpecRetained) *)

\* The step is one of a load() call of loader l: its start, an iteration, its
\* return or its raise
LoadActs(l) == calls'[l] # calls[l] /\ calls'[l].pc # "idle"

\* The step starts a load() call of loader l
LoadStarts(l) == LoadActs(l) /\ calls[l].pc # "loop"

\* The file input of the call being started: this call's argument, else the one
\* retained at construction
StartedFileInput(l, key) ==
    IF DictGet(calls'[l].args, key) \notin {PyNone, ""}
    THEN DictGet(calls'[l].args, key)
    ELSE DictGet(loaders[l].init_kwargs, key)

\* The result of the call being started holds a record of the sub-source
StartedHasRecordOf(l, source_file) ==
    \E k \in 1..Len(calls'[l].returned) :
        calls'[l].returned[k].extra.source_file = source_file

\* The overrides of the call being started
StartedOverrides(l) ==
    IF loaders[l].cls = "HarmBenchLoader"
    THEN DictWithout(calls'[l].args, HarmBenchPathKeys)
    ELSE calls'[l].args

\* C23: every step of load(), of the base class and of HarmBench, returning or
\* raising, leaves the loader's retained path, split and options and the
\* registry unchanged; the files a call reads and the options a call passes to
\* the fetch come from this call's arguments and the configuration retained at
\* construction, never from the arguments of an earlier call.
C23_LoadKeepsRetainedConfig ==
    [][\A l \in LoaderIds :
          /\ LoadActs(l) =>
                /\ loaders' = loaders
                /\ registry' = registry
                /\ REGISTER_NAME' = REGISTER_NAME
                /\ DEFAULT_HF_PATH' = DEFAULT_HF_PATH
          /\ (LoadStarts(l) /\ loaders[l].cls = "HarmBenchLoader") =>
                /\ StartedHasRecordOf(l, "behavior_csv") <=>
                      (StartedFileInput(l, "query_task_path") # PyNone)
                /\ StartedHasRecordOf(l, "response_json") <=>
                      (StartedFileInput(l, "response_task_path") # PyNone)
          /\ (LoadStarts(l) /\ calls'[l].fetch_path # PyNone) =>
                /\ calls'[l].fetch_path = loaders[l].path
                /\ \A k \in DOMAIN calls'[l].final_kwargs :
                      IF k \in DOMAIN StartedOverrides(l)
                      THEN calls'[l].final_kwargs[k] = StartedOverrides(l)[k]
                      ELSE /\ k \in DOMAIN loaders[l].init_kwargs
                           /\ k # "split" =>
                                 calls'[l].final_kwargs[k] = loaders[l].init_kwargs[k]
                /\ "split" \notin DOMAIN StartedOverrides(l) =>
                      calls'[l].current_split \in {loaders[l].init_kwargs["split"], "train"}]_vars

\* A HarmBench load() that was given the CSV path at call time returned the CSV
\* record, and the instance, constructed without file paths and with split
\* "test", still retains no file path and the split "test"
C23_Witness ==
    /\ loaders[1] # NoLoader
    /\ loaders[1].cls = "HarmBenchLoader"
    /\ calls[1].pc = "returned"
    /\ calls[1].args = [query_task_path |-> CsvPath]
    /\ Len(calls[1].returned) = 1
    /\ loaders[1].init_kwargs["query_task_path"] = PyNone
    /\ loaders[1].init_kwargs["response_task_path"] = PyNone
    /\ loaders[1].init_kwargs["split"] = "test"

----------------------------------------------------------------------------
(* A claim about the registry the package exports (checked under SpecRegistry) *)

\* No operation has been called since the package was initialized
PackageJustInitialized == last.op = "init"

\* C24: after the package has been initialized, the registry it exports binds
\* each of the five names "aegis-v1", "aegis-v2", "beavertails", "bingoguard"
\* and "harmbench" to the class decorated with that name, so that get_loader
\* finds all five.
C24_PackageBindsAllFive ==
    PackageJustInitialized =>
        \A c \in SourceClasses :
            /\ registry[Decorations[c]] = c
            /\ LookupError(registry, Decorations[c]) = NoError

============================================================================
